---- MODULE Spec2Model ----
(***************************************************************************)
(* Model of the three standalone scripts of rmf-market-pulse:              *)
(*   fetch-abgdd-rmf.py       ("abgdd")                                    *)
(*   fetch-scb-rmf-funds.py   ("funds")                                    *)
(*   fetch-scb-rmf-simple.py  ("simple")                                   *)
(* One behaviour is one run of one script against a remote service whose   *)
(* answers are chosen freely from small sample sets.                       *)
(***************************************************************************)
EXTENDS Integers, Sequences, FiniteSets, TLC

VARIABLES
  script,            \* which script this run executes
  FACTSHEET_KEY,     \* module global of the SCB scripts
  DAILY_INFO_KEY,    \* module global of fetch-scb-rmf-funds.py
  pc,                \* position of main()
  idx,               \* position of the for loop over endpoints (abgdd)
  all_data,          \* abgdd: the aggregated result set (insertion ordered)
  requests,          \* HTTP requests issued so far, in order
  responses,         \* the HTTP exchanges of the calls so far, in order
  data,              \* the value the latest call_api returned
  console,           \* result lines printed so far
  files,             \* output files written so far, in order
  exit_status,       \* Running, 0 (normal end) or 1 (uncaught exception)
  uncaught,          \* name of the exception that ended the run, or ""
  amc_list,          \* SCB scripts: locals of main()
  scb_amc,
  all_scb_funds,
  rmf_funds,
  active_rmf_funds,
  assets

vars == <<script, FACTSHEET_KEY, DAILY_INFO_KEY, pc, idx, all_data, requests,
          responses, data, console, files, exit_status, uncaught, amc_list,
          scb_amc, all_scb_funds, rmf_funds, active_rmf_funds, assets>>

----------------------------------------------------------------------------
(* Bounds of the model *)

\* how many endpoints of the enumeration (a prefix of it) one run iterates
MaxEndpoints == 3

\* longest fund list the remote service answers with
MaxFunds == 2

Running == -1

----------------------------------------------------------------------------
(* Python values.  Every value is a record of the same four fields so that *)
(* any two values can be compared.                                         *)

PyNone == [t |-> "None", s |-> <<>>, items |-> <<>>, kv |-> <<>>]

PyStr(cs) == [t |-> "str", s |-> cs, items |-> <<>>, kv |-> <<>>]

PyList(xs) == [t |-> "list", s |-> <<>>, items |-> xs, kv |-> <<>>]

\* a dict keeps its entries [k, v] in insertion order
PyDict(entries) == [t |-> "dict", s |-> <<>>, items |-> <<>>, kv |-> entries]

\* truth value testing: `not x`
Falsy(x) ==
  \/ x.t = "None"
  \/ x.t = "str" /\ x.s = <<>>
  \/ x.t = "list" /\ x.items = <<>>
  \/ x.t = "dict" /\ x.kv = <<>>

HasKey(d, key) == \E n \in 1..Len(d.kv) : d.kv[n].k = key

\* d[key] of a dict that has the key
Item(d, key) == d.kv[CHOOSE n \in 1..Len(d.kv) : d.kv[n].k = key].v

\* d.get(key, default)
Get(d, key, default) == IF HasKey(d, key) THEN Item(d, key) ELSE default

\* d[key] = value on an insertion-ordered mapping (a sequence of [k, v])
DictSetWrong(entries, key, value) ==
  <<[k |-> key, v |-> value]>> \o entries

DictSet(entries, key, value) ==
  IF \E n \in 1..Len(entries) : entries[n].k = key
  THEN [n \in 1..Len(entries) |->
          IF entries[n].k = key THEN [k |-> key, v |-> value] ELSE entries[n]]
  ELSE Append(entries, [k |-> key, v |-> value])

----------------------------------------------------------------------------
(* Strings are sequences of characters *)

LowerCase == <<"a","b","c","d","e","f","g","h","i","j","k","l","m",
               "n","o","p","q","r","s","t","u","v","w","x","y","z">>

UpperCase == <<"A","B","C","D","E","F","G","H","I","J","K","L","M",
               "N","O","P","Q","R","S","T","U","V","W","X","Y","Z">>

UpperChar(c) ==
  IF \E n \in 1..26 : LowerCase[n] = c
  THEN UpperCase[CHOOSE n \in 1..26 : LowerCase[n] = c]
  ELSE c

\* str.upper()
Upper(cs) == [n \in 1..Len(cs) |-> UpperChar(cs[n])]

\* needle in hay
Contains(hay, needle) ==
  \E n \in 0..(Len(hay) - Len(needle)) :
     SubSeq(hay, n + 1, n + Len(needle)) = needle

\* position of the first occurrence of sep in cs, 0 when there is none
Find(cs, sep) ==
  IF Contains(cs, sep)
  THEN CHOOSE n \in 1..Len(cs) :
         /\ SubSeq(cs, n, n + Len(sep) - 1) = sep
         /\ \A m \in 1..(n - 1) : SubSeq(cs, m, m + Len(sep) - 1) # sep
  ELSE 0

RECURSIVE Split(_, _)
\* str.split(sep)
Split(cs, sep) ==
  IF Find(cs, sep) = 0
  THEN <<cs>>
  ELSE <<SubSeq(cs, 1, Find(cs, sep) - 1)>>
       \o Split(SubSeq(cs, Find(cs, sep) + Len(sep), Len(cs)), sep)

----------------------------------------------------------------------------
(* JSON bodies on the wire and their decoding *)

JNull == [j |-> "null", s |-> <<>>, elems |-> <<>>, members |-> <<>>]

JString(cs) == [j |-> "string", s |-> cs, elems |-> <<>>, members |-> <<>>]

JArray(xs) == [j |-> "array", s |-> <<>>, elems |-> xs, members |-> <<>>]

\* members are [name, value] in the order of the text
JObject(ms) == [j |-> "object", s |-> <<>>, elems |-> <<>>, members |-> ms]

\* a body that is not JSON text, such as `not valid json`
JInvalid == [j |-> "invalid", s |-> <<>>, elems |-> <<>>, members |-> <<>>]

IsJson(body) == body.j # "invalid"

RECURSIVE json_loads(_)
RECURSIVE LoadMembers(_, _)

\* the members of an object, loaded left to right into a dict: a repeated
\* name keeps its first position and takes the last value
LoadMembers(ms, acc) ==
  IF ms = <<>> THEN acc
  ELSE LoadMembers(Tail(ms), DictSet(acc, Head(ms).name, json_loads(Head(ms).value)))

\* json.loads / Response.json() of a body that is JSON text
json_loads(body) ==
  CASE body.j = "null" -> PyNone
    [] body.j = "string" -> PyStr(body.s)
    [] body.j = "array" ->
         PyList([n \in 1..Len(body.elems) |-> json_loads(body.elems[n])])
    [] body.j = "object" -> PyDict(LoadMembers(body.members, <<>>))

----------------------------------------------------------------------------
(* The HTTP exchange of one request, as the HTTP library surfaces it *)

\* no response at all: connection refused, DNS failure, timeout
NetworkFailure == [net |-> "fail", status |-> 0, body |-> JInvalid]

HttpResponse(status, body) == [net |-> "ok", status |-> status, body |-> body]

Is2xx(status) == status >= 200 /\ status <= 299

\* statuses that come with any of the sample bodies
StatusSamples == {200, 204, 304}

\* a status that comes with the error body
ErrorStatus == 404

ErrorBody ==
  JObject(<<[name |-> "error", value |-> JString(<<"n","o","t"," ","f","o","u","n","d">>)]>>)

AbgddBodies == {JNull, JObject(<<>>), JArray(<<>>), ErrorBody, JInvalid}

Responses(bodies) ==
  {NetworkFailure, HttpResponse(ErrorStatus, ErrorBody)}
    \cup {HttpResponse(st, b) : st \in StatusSamples, b \in bodies}

\* one printed result line
Line(kind, status) == [kind |-> kind, status |-> status]

\* what a call_api does: the value it returns, the exception that escapes
\* it ("" when none does) and the lines it prints
Returned(ret, printed) == [ret |-> ret, raised |-> "", printed |-> printed]

Raised(exc) == [ret |-> PyNone, raised |-> exc, printed |-> <<>>]

----------------------------------------------------------------------------
(* fetch-abgdd-rmf.py *)

API_KEY == PyStr(<<"6","1","8","a","3","f","f","e">>)

\* Response.raise_for_status() raises HTTPError for 4xx and 5xx only
RaisesForStatus(status) == status >= 400 /\ status < 600

\* call_api(endpoint, description) on the exchange resp.  A body that is
\* not JSON raises an exception that, depending on the installed requests
\* release, is caught by the first or by the second except clause.
call_api_abgdd(resp, clause) ==
  IF resp.net = "fail"
  THEN Returned(PyNone, <<Line("api_failed", 0)>>)
  ELSE IF RaisesForStatus(resp.status)
       THEN Returned(PyNone, <<Line("api_failed", resp.status)>>)
       ELSE IF IsJson(resp.body)
            THEN Returned(json_loads(resp.body), <<Line("success", 0)>>)
            ELSE IF clause = "RequestException"
                 THEN Returned(PyNone, <<Line("api_failed", 0)>>)
                 ELSE Returned(PyNone, <<Line("decode_error", 0)>>)

ExceptClauses == {"RequestException", "JSONDecodeError"}

AllEndpoints == <<
      [endpoint |-> "/fund/M0570_2565/specification",
       description |-> <<"1","."," ","F","u","n","d"," ","S","p","e","c","i","f","i","c","a","t","i","o","n">>],
      [endpoint |-> "/fund/M0570_2565/asset",
       description |-> <<"2","."," ","A","s","s","e","t"," ","A","l","l","o","c","a","t","i","o","n">>],
      [endpoint |-> "/fund/M0570_2565/policy",
       description |-> <<"3","."," ","I","n","v","e","s","t","m","e","n","t"," ","P","o","l","i","c","y">>],
      [endpoint |-> "/fund/M0570_2565/risk",
       description |-> <<"4","."," ","R","i","s","k"," ","I","n","f","o","r","m","a","t","i","o","n">>],
      [endpoint |-> "/fund/M0570_2565/fee",
       description |-> <<"5","."," ","F","e","e"," ","S","t","r","u","c","t","u","r","e">>],
      [endpoint |-> "/fund/M0570_2565/performance",
       description |-> <<"6","."," ","F","u","n","d"," ","P","e","r","f","o","r","m","a","n","c","e">>],
      [endpoint |-> "/fund/M0570_2565/return",
       description |-> <<"7","."," ","R","e","t","u","r","n"," ","I","n","f","o","r","m","a","t","i","o","n">>],
      [endpoint |-> "/fund/M0570_2565/dividend",
       description |-> <<"8","."," ","D","i","v","i","d","e","n","d"," ","H","i","s","t","o","r","y">>],
      [endpoint |-> "/fund/M0570_2565/FundPort/latest",
       description |-> <<"9","."," ","F","u","n","d"," ","H","o","l","d","i","n","g","s"," ","(","L","a","t","e","s","t",")">>],
      [endpoint |-> "/fund/M0570_2565/FundTop5/latest",
       description |-> <<"1","0","."," ","T","o","p"," ","5"," ","H","o","l","d","i","n","g","s"," ","(","L","a","t","e","s","t",")">>],
      [endpoint |-> "/fund/M0570_2565/benchmark",
       description |-> <<"1","1","."," ","B","e","n","c","h","m","a","r","k"," ","I","n","f","o","r","m","a","t","i","o","n">>],
      [endpoint |-> "/fund/M0570_2565/suitability",
       description |-> <<"1","2","."," ","F","u","n","d"," ","S","u","i","t","a","b","i","l","i","t","y">>],
      [endpoint |-> "/fund/M0570_2565/redemption",
       description |-> <<"1","3","."," ","R","e","d","e","m","p","t","i","o","n"," ","I","n","f","o","r","m","a","t","i","o","n">>],
      [endpoint |-> "/fund/M0570_2565/InvolveParty",
       description |-> <<"1","4","."," ","I","n","v","o","l","v","e","d"," ","P","a","r","t","i","e","s">>],
      [endpoint |-> "/fund/M0570_2565/investment",
       description |-> <<"1","5","."," ","I","n","v","e","s","t","m","e","n","t"," ","I","n","f","o","r","m","a","t","i","o","n">>],
      [endpoint |-> "/fund/M0570_2565/project_type",
       description |-> <<"1","6","."," ","P","r","o","j","e","c","t"," ","T","y","p","e">>],
      [endpoint |-> "/fund/M0570_2565/turnover_ratio",
       description |-> <<"1","7","."," ","T","u","r","n","o","v","e","r"," ","R","a","t","i","o">>],
      [endpoint |-> "/fund/M0570_2565/5YearLost",
       description |-> <<"1","8","."," ","5","-","Y","e","a","r"," ","L","o","s","s"," ","P","r","o","b","a","b","i","l","i","t","y">>]
   >>

\* the endpoints one run of the model iterates
endpoints == SubSeq(AllEndpoints, 1, MaxEndpoints)

\* key = description.split(". ")[1]
KeyOf(description) == Split(description, <<".", " ">>)[2]

OutputFile == "abgdd-rmf-complete-data.json"

Request(path, arg, key) == [path |-> path, arg |-> arg, key |-> key]

\* main(), lines 56-86: the banner, all_data = {} and the endpoint list
AbgddStart ==
  /\ script = "abgdd"
  /\ pc = "start"
  /\ all_data' = <<>>
  /\ idx' = 1
  /\ pc' = "loop"
  /\ UNCHANGED <<script, FACTSHEET_KEY, DAILY_INFO_KEY, requests, responses,
                 data, console, files, exit_status, uncaught, amc_list,
                 scb_amc, all_scb_funds, rmf_funds, active_rmf_funds, assets>>

\* one iteration of the for loop with a loop that stops at the first failure
AbgddIterationBreak ==
  /\ script = "abgdd"
  /\ pc = "loop"
  /\ idx <= Len(endpoints)
  /\ \E resp \in Responses(AbgddBodies), clause \in ExceptClauses :
       LET r == call_api_abgdd(resp, clause)
           key == KeyOf(endpoints[idx].description)
       IN /\ requests' = Append(requests,
                           Request(endpoints[idx].endpoint, PyNone, API_KEY))
          /\ responses' = Append(responses, resp)
          /\ data' = r.ret
          /\ console' = console \o r.printed
          /\ all_data' = IF r.ret # PyNone
                         THEN DictSet(all_data, key, r.ret)
                         ELSE all_data
          /\ idx' = IF r.ret # PyNone THEN idx + 1 ELSE Len(endpoints) + 1
  /\ UNCHANGED <<script, FACTSHEET_KEY, DAILY_INFO_KEY, pc, files,
                 exit_status, uncaught, amc_list, scb_amc, all_scb_funds,
                 rmf_funds, active_rmf_funds, assets>>

\* main(), lines 88-92: one iteration of the for loop
AbgddIteration ==
  /\ script = "abgdd"
  /\ pc = "loop"
  /\ idx <= Len(endpoints)
  /\ \E resp \in Responses(AbgddBodies), clause \in ExceptClauses :
       LET r == call_api_abgdd(resp, clause)
           key == KeyOf(endpoints[idx].description)
       IN /\ requests' = Append(requests,
                           Request(endpoints[idx].endpoint, PyNone, API_KEY))
          /\ responses' = Append(responses, resp)
          /\ data' = r.ret
          /\ console' = console \o r.printed
          /\ all_data' = IF r.ret # PyNone
                         THEN DictSet(all_data, key, r.ret)
                         ELSE all_data
  /\ idx' = idx + 1
  /\ UNCHANGED <<script, FACTSHEET_KEY, DAILY_INFO_KEY, pc, files,
                 exit_status, uncaught, amc_list, scb_amc, all_scb_funds,
                 rmf_funds, active_rmf_funds, assets>>

\* the end of main() with a save that is skipped when nothing was collected
AbgddSaveIfAny ==
  /\ script = "abgdd"
  /\ pc = "loop"
  /\ idx > Len(endpoints)
  /\ files' = IF all_data = <<>> THEN files
              ELSE Append(files, [name |-> OutputFile, content |-> all_data])
  /\ console' = Append(console, Line("summary", Len(all_data)))
  /\ pc' = "done"
  /\ exit_status' = 0
  /\ UNCHANGED <<script, FACTSHEET_KEY, DAILY_INFO_KEY, idx, all_data,
                 requests, responses, data, uncaught, amc_list, scb_amc,
                 all_scb_funds, rmf_funds, active_rmf_funds, assets>>

\* main(), lines 94-109: after the loop, json.dump(all_data) to the output
\* file, the summary, and the normal end of the run
AbgddSave ==
  /\ script = "abgdd"
  /\ pc = "loop"
  /\ idx > Len(endpoints)
  /\ files' = Append(files, [name |-> OutputFile, content |-> all_data])
  /\ console' = Append(console, Line("summary", Len(all_data)))
  /\ pc' = "done"
  /\ exit_status' = 0
  /\ UNCHANGED <<script, FACTSHEET_KEY, DAILY_INFO_KEY, idx, all_data,
                 requests, responses, data, uncaught, amc_list, scb_amc,
                 all_scb_funds, rmf_funds, active_rmf_funds, assets>>

----------------------------------------------------------------------------
(* fetch-scb-rmf-funds.py and fetch-scb-rmf-simple.py *)

\* call_api(endpoint, api_key) of fetch-scb-rmf-funds.py: requests.get and
\* Response.json() are called outside any try block
call_api_funds(resp) ==
  IF resp.net = "fail"
  THEN Raised("ConnectionError")
  ELSE IF resp.status = 200
       THEN IF IsJson(resp.body)
            THEN Returned(json_loads(resp.body), <<>>)
            ELSE Raised("JSONDecodeError")
       ELSE Returned(PyNone, <<Line("error_status", resp.status)>>)

\* call_api(endpoint) of fetch-scb-rmf-simple.py: urlopen raises URLError
\* when there is no response and HTTPError for a status outside 200-299
call_api_simple(resp) ==
  IF resp.net = "fail"
  THEN Returned(PyNone, <<Line("error", 0)>>)
  ELSE IF ~Is2xx(resp.status)
       THEN Returned(PyNone, <<Line("http_error", resp.status)>>)
       ELSE IF IsJson(resp.body)
            THEN Returned(json_loads(resp.body), <<>>)
            ELSE Returned(PyNone, <<Line("error", 0)>>)

call_api(sc, resp) ==
  IF sc = "funds" THEN call_api_funds(resp) ELSE call_api_simple(resp)

\* `if not FACTSHEET_KEY` with a test that only sees an unset key
KeyAbsentUnsetOnly(key) == key.t = "None"

\* `if not FACTSHEET_KEY`, `if not DAILY_INFO_KEY`
KeyAbsent(key) == Falsy(key)

\* fetch_fund_nav(proj_id, nav_date): the requests it issues
fetch_fund_nav(daily_key, proj_id, nav_date) ==
  IF KeyAbsent(daily_key)
  THEN <<>>
  ELSE <<Request("/FundDailyInfo/{proj_id}/dailynav/{nav_date}",
                 proj_id, daily_key)>>

\* an environment variable is unset or holds a string
Unset == PyNone

EnvFactsheet == {Unset, PyStr(<<>>), PyStr(<<"f">>)}

EnvDaily == {Unset, PyStr(<<"d">>)}

\* os.getenv(name, default)
getenv(value, default) == IF value = Unset THEN default ELSE value

Member(n, v) == [name |-> n, value |-> v]

SeqsUpTo(S, n) == UNION {[1..k -> S] : k \in 0..n}

ScbAmc ==
  JObject(<<Member("unique_id", JString(<<"C","1">>)),
            Member("name_en", JString(<<"S","C","B"," ","A","M">>)),
            Member("name_th", JString(<<"t","h">>))>>)

ScbAmcLowerCase ==
  JObject(<<Member("unique_id", JString(<<"C","2">>)),
            Member("name_en", JString(<<"s","c","b","a","m">>)),
            Member("name_th", JString(<<"t","h">>))>>)

OtherAmc ==
  JObject(<<Member("unique_id", JString(<<"C","3">>)),
            Member("name_en", JString(<<"K","T","A","M">>)),
            Member("name_th", JString(<<"t","h">>))>>)

ScbAmcWithoutId == JObject(<<Member("name_en", JString(<<"S","C","B">>))>>)

AmcWithNullName ==
  JObject(<<Member("unique_id", JString(<<"C","5">>)),
            Member("name_en", JNull)>>)

\* the bodies the AMC-list request is answered with
AmcBodies ==
  { JNull, ErrorBody, JInvalid, JArray(<<>>),
    JArray(<<ScbAmc>>),
    JArray(<<OtherAmc>>),
    JArray(<<OtherAmc, ScbAmcLowerCase, ScbAmc>>),
    JArray(<<ScbAmcWithoutId>>),
    JArray(<<ScbAmc, AmcWithNullName>>) }

Fund(id, abbr, name, status, cancel) ==
  JObject(<<Member("proj_id", JString(id)),
            Member("proj_abbr_name", JString(abbr)),
            Member("proj_name_en", name),
            Member("proj_name_th", JString(<<"t","h">>)),
            Member("fund_status", JString(status)),
            Member("regis_date", JString(<<"2","0","1","0">>)),
            Member("cancel_date", JString(cancel))>>)

FundSamples ==
  { Fund(<<"M","1">>, <<"S","C","B","E","Q">>,
         JString(<<"E","q","u","i","t","y"," ","r","m","f">>), <<"R","G">>, <<"-">>),
    JObject(<<Member("proj_abbr_name", JString(<<"r","m","f","2">>)),
              Member("proj_name_en", JNull),
              Member("fund_status", JString(<<"C","A">>)),
              Member("cancel_date", JString(<<"-">>))>>),
    Fund(<<"M","3">>, <<"S","C","B","R","F">>,
         JString(<<"R","e","t","i","r","e","m","e","n","t"," ","F","u","n","d">>),
         <<"R","G">>, <<"2","0","2","0">>),
    Fund(<<"M","5">>, <<"S","C","B","M","3">>,
         JString(<<"M","o","n","e","y">>), <<"R","G">>, <<"-">>),
    Fund(<<"M","6">>, <<"S","C","B","X">>, JNull, <<"R","G">>, <<"-">>) }

FundBodies ==
  {JNull, ErrorBody, JInvalid} \cup {JArray(xs) : xs \in SeqsUpTo(FundSamples, MaxFunds)}

AssetBodies ==
  { ErrorBody, JInvalid, JArray(<<>>),
    JArray(<<JObject(<<Member("asset_seq", JString(<<"1">>)),
                       Member("asset_name", JString(<<"E","q">>)),
                       Member("asset_ratio", JString(<<"9","0">>))>>)>>),
    JArray(<<JObject(<<Member("asset_seq", JString(<<"1">>)),
                       Member("asset_name", JNull),
                       Member("asset_ratio", JString(<<"9","0">>))>>)>>),
    JArray(<<JObject(<<Member("asset_seq", JString(<<"1">>)),
                       Member("asset_name", JString(<<"E","q">>))>>)>>) }

IsScb(sc) == sc \in {"funds", "simple"}

\* the run ends: normally (exc = "") or with an uncaught exception
Ends(exc) ==
  /\ pc' = IF exc = "" THEN "done" ELSE "crashed"
  /\ exit_status' = IF exc = "" THEN 0 ELSE 1
  /\ uncaught' = exc

\* x.get(field, '').upper() raises unless x is a dict holding a str there
UpperRaises(x, field) ==
  \/ x.t # "dict"
  \/ Get(x, field, PyStr(<<>>)).t # "str"

UpperOf(x, field) == Upper(Get(x, field, PyStr(<<>>)).s)

\* [amc for amc in amc_list if 'SCB' in amc.get('name_en', '').upper()]
ScbAmcsRaises(lst) ==
  \/ lst.t # "list"
  \/ \E n \in 1..Len(lst.items) : UpperRaises(lst.items[n], "name_en")

IsScbAmc(amc) == Contains(UpperOf(amc, "name_en"), <<"S","C","B">>)

\* the comprehension with its result in reverse order
ScbAmcsReversed(lst) ==
  LET found == SelectSeq(lst.items, IsScbAmc)
  IN [n \in 1..Len(found) |-> found[Len(found) + 1 - n]]

ScbAmcs(lst) == SelectSeq(lst.items, IsScbAmc)

RMF == <<"R","M","F">>

RETIREMENT == <<"R","E","T","I","R","E","M","E","N","T">>

\* the condition of the rmf_funds comprehension; `or` evaluates its right
\* operands only when the left one is false
IsRmfRaises(fund) ==
  \/ UpperRaises(fund, "proj_abbr_name")
  \/ /\ ~Contains(UpperOf(fund, "proj_abbr_name"), RMF)
     /\ UpperRaises(fund, "proj_name_en")

\* the condition with a case-sensitive comparison
IsRmfCaseSensitive(fund) ==
  \/ Contains(Get(fund, "proj_abbr_name", PyStr(<<>>)).s, RMF)
  \/ Contains(Get(fund, "proj_name_en", PyStr(<<>>)).s, RMF)
  \/ Contains(Get(fund, "proj_name_en", PyStr(<<>>)).s, RETIREMENT)

IsRmf(fund) ==
  \/ Contains(UpperOf(fund, "proj_abbr_name"), RMF)
  \/ Contains(UpperOf(fund, "proj_name_en"), RMF)
  \/ Contains(UpperOf(fund, "proj_name_en"), RETIREMENT)

RmfFundsRaises(lst) ==
  \/ lst.t # "list"
  \/ \E n \in 1..Len(lst.items) : IsRmfRaises(lst.items[n])

RmfFunds(lst) == SelectSeq(lst.items, IsRmf)

IsActive(fund) ==
  /\ Get(fund, "fund_status", PyNone) = PyStr(<<"R","G">>)
  /\ Get(fund, "cancel_date", PyNone) = PyStr(<<"-">>)

ActiveFunds(funds) == SelectSeq(funds, IsActive)

\* main(): the API key check (funds lines 94-105, simple lines 67-73)
ScbCheckKey ==
  /\ IsScb(script)
  /\ pc = "start"
  /\ IF KeyAbsent(FACTSHEET_KEY)
     THEN /\ console' = Append(console, Line("key_missing", 0))
          /\ Ends("")
     ELSE /\ console' = IF script = "funds" /\ KeyAbsent(DAILY_INFO_KEY)
                        THEN Append(console, Line("nav_unavailable", 0))
                        ELSE console
          /\ pc' = "fetch_amc"
          /\ UNCHANGED <<exit_status, uncaught>>
  /\ UNCHANGED <<script, FACTSHEET_KEY, DAILY_INFO_KEY, idx, all_data,
                 requests, responses, data, files, amc_list, scb_amc,
                 all_scb_funds, rmf_funds, active_rmf_funds, assets>>

\* main(), step 1: fetch the AMC list (funds lines 107-115 with
\* fetch_amc_list, simple lines 75-83)
ScbFetchAmc ==
  /\ IsScb(script)
  /\ pc = "fetch_amc"
  /\ \E resp \in Responses(AmcBodies) :
       LET r == call_api(script, resp)
       IN /\ requests' = Append(requests,
                Request("/FundFactsheet/fund/amc", PyNone, FACTSHEET_KEY))
          /\ responses' = Append(responses, resp)
          /\ IF r.raised # ""
             THEN /\ Ends(r.raised)
                  /\ UNCHANGED <<data, amc_list, console>>
             ELSE /\ data' = r.ret
                  /\ amc_list' = r.ret
                  /\ IF Falsy(r.ret)
                     THEN /\ console' = Append(console \o r.printed,
                                               Line("amc_list_failed", 0))
                          /\ Ends("")
                     ELSE /\ console' = console \o r.printed
                          /\ pc' = "find_amc"
                          /\ UNCHANGED <<exit_status, uncaught>>
  /\ UNCHANGED <<script, FACTSHEET_KEY, DAILY_INFO_KEY, idx, all_data, files,
                 scb_amc, all_scb_funds, rmf_funds, active_rmf_funds, assets>>

\* main(): select the SCB AMC (funds lines 117-128, simple lines 85-96)
ScbFindAmc ==
  /\ IsScb(script)
  /\ pc = "find_amc"
  /\ IF ScbAmcsRaises(amc_list)
     THEN /\ Ends("AttributeError")
          /\ UNCHANGED <<scb_amc, console>>
     ELSE IF ScbAmcs(amc_list) = <<>>
     THEN /\ console' = Append(console, Line("no_scb_amc", 0))
          /\ Ends("")
          /\ UNCHANGED scb_amc
     ELSE /\ scb_amc' = ScbAmcs(amc_list)[1]
          /\ UNCHANGED console
          /\ IF /\ HasKey(ScbAmcs(amc_list)[1], "unique_id")
                /\ HasKey(ScbAmcs(amc_list)[1], "name_th")
             THEN /\ pc' = "fetch_funds"
                  /\ UNCHANGED <<exit_status, uncaught>>
             ELSE Ends("KeyError")
  /\ UNCHANGED <<script, FACTSHEET_KEY, DAILY_INFO_KEY, idx, all_data,
                 requests, responses, data, files, amc_list, all_scb_funds,
                 rmf_funds, active_rmf_funds, assets>>

\* main(), step 2: fetch the funds of the AMC (funds lines 130-138 with
\* fetch_funds_by_amc, simple lines 98-106)
ScbFetchFunds ==
  /\ IsScb(script)
  /\ pc = "fetch_funds"
  /\ \E resp \in Responses(FundBodies) :
       LET r == call_api(script, resp)
       IN /\ requests' = Append(requests,
                Request("/FundFactsheet/fund/amc/{amc_id}",
                        Item(scb_amc, "unique_id"), FACTSHEET_KEY))
          /\ responses' = Append(responses, resp)
          /\ IF r.raised # ""
             THEN /\ Ends(r.raised)
                  /\ UNCHANGED <<data, all_scb_funds, console>>
             ELSE /\ data' = r.ret
                  /\ all_scb_funds' = r.ret
                  /\ IF Falsy(r.ret)
                     THEN /\ console' = Append(console \o r.printed,
                                               Line("funds_failed", 0))
                          /\ Ends("")
                     ELSE /\ console' = console \o r.printed
                          /\ pc' = "filter"
                          /\ UNCHANGED <<exit_status, uncaught>>
  /\ UNCHANGED <<script, FACTSHEET_KEY, DAILY_INFO_KEY, idx, all_data, files,
                 amc_list, scb_amc, rmf_funds, active_rmf_funds, assets>>

\* main(), step 3: the RMF filter, the active filter and the listing
\* (funds lines 140-175, simple lines 108-139)
ScbFilter ==
  /\ IsScb(script)
  /\ pc = "filter"
  /\ IF RmfFundsRaises(all_scb_funds)
     THEN /\ Ends("AttributeError")
          /\ UNCHANGED <<rmf_funds, active_rmf_funds, console>>
     ELSE LET rmf == RmfFunds(all_scb_funds)
              active == ActiveFunds(rmf)
          IN /\ rmf_funds' = PyList(rmf)
             /\ IF script = "funds" /\ active = <<>>
                THEN /\ active_rmf_funds' = PyList(rmf)
                     /\ console' = console \o
                          <<Line("rmf_funds", Len(rmf)),
                            Line("active_rmf_funds", Len(active)),
                            Line("no_active_rmf_funds", 0)>>
                ELSE /\ active_rmf_funds' = PyList(active)
                     /\ console' = console \o
                          <<Line("rmf_funds", Len(rmf)),
                            Line("active_rmf_funds", Len(active))>>
             /\ pc' = "search"
             /\ UNCHANGED <<exit_status, uncaught>>
  /\ UNCHANGED <<script, FACTSHEET_KEY, DAILY_INFO_KEY, idx, all_data,
                 requests, responses, data, files, amc_list, scb_amc,
                 all_scb_funds, assets>>

IsScbm3(fund) ==
  Get(fund, "proj_abbr_name", PyNone) = PyStr(<<"S","C","B","M","3">>)

\* main(), step 4: look for SCBM3 (funds lines 177-187, simple lines 141-154)
ScbSearch ==
  /\ IsScb(script)
  /\ pc = "search"
  /\ console' = Append(console,
                  IF SelectSeq(all_scb_funds.items, IsScbm3) # <<>>
                  THEN Line("scbm3_found", 0)
                  ELSE Line("scbm3_not_found", 0))
  /\ pc' = "asset"
  /\ UNCHANGED <<script, FACTSHEET_KEY, DAILY_INFO_KEY, idx, all_data,
                 requests, responses, data, files, exit_status, uncaught,
                 amc_list, scb_amc, all_scb_funds, rmf_funds,
                 active_rmf_funds, assets>>

KeysOf(recs) ==
  UNION {{recs[n].kv[m].k : m \in 1..Len(recs[n].kv)} : n \in 1..Len(recs)}

\* funds lines 200-204: pd.DataFrame(assets) and the column selection;
\* the exception that escapes, "" when none does
AssetTableRaises(a) ==
  IF a.t # "list" THEN "ValueError"
  ELSE IF \/ \E n \in 1..Len(a.items) : a.items[n].t # "dict"
          \/ ~({"asset_seq", "asset_name", "asset_ratio"} \subseteq KeysOf(a.items))
       THEN "KeyError"
       ELSE ""

\* simple lines 172-176: the loop over the assets
AssetLoopRaises(a) ==
  IF a.t # "list" THEN "AttributeError"
  ELSE IF \E n \in 1..Len(a.items) : a.items[n].t # "dict"
       THEN "AttributeError"
       ELSE IF \E n \in 1..Len(a.items) :
                  Get(a.items[n], "asset_name", PyStr(<<>>)).t # "str"
            THEN "TypeError"
            ELSE ""

AssetDisplayRaises(sc, a) ==
  IF sc = "funds" THEN AssetTableRaises(a) ELSE AssetLoopRaises(a)

AfterAsset(sc) == IF sc = "funds" THEN "export" ELSE "save"

\* main(), step 5: the asset allocation of the first listed fund
\* (funds lines 189-208 with fetch_fund_asset, simple lines 156-178)
ScbAsset ==
  /\ IsScb(script)
  /\ pc = "asset"
  /\ \/ /\ Falsy(active_rmf_funds)
        /\ pc' = AfterAsset(script)
        /\ UNCHANGED <<requests, responses, data, assets, console,
                       exit_status, uncaught>>
     \/ /\ ~Falsy(active_rmf_funds)
        /\ \E resp \in Responses(AssetBodies) :
             LET r == call_api(script, resp)
             IN /\ requests' = Append(requests,
                      Request("/FundFactsheet/fund/{proj_id}/asset",
                              Get(active_rmf_funds.items[1], "proj_id", PyNone),
                              FACTSHEET_KEY))
                /\ responses' = Append(responses, resp)
                /\ IF r.raised # ""
                   THEN /\ Ends(r.raised)
                        /\ UNCHANGED <<data, assets, console>>
                   ELSE /\ data' = r.ret
                        /\ assets' = r.ret
                        /\ IF Falsy(r.ret)
                           THEN /\ console' = Append(console \o r.printed,
                                                 Line("asset_failed", 0))
                                /\ pc' = AfterAsset(script)
                                /\ UNCHANGED <<exit_status, uncaught>>
                           ELSE /\ console' = console \o r.printed
                                /\ IF AssetDisplayRaises(script, r.ret) # ""
                                   THEN Ends(AssetDisplayRaises(script, r.ret))
                                   ELSE /\ pc' = AfterAsset(script)
                                        /\ UNCHANGED <<exit_status, uncaught>>
  /\ UNCHANGED <<script, FACTSHEET_KEY, DAILY_INFO_KEY, idx, all_data, files,
                 amc_list, scb_amc, all_scb_funds, rmf_funds,
                 active_rmf_funds>>

Columns == <<"proj_id", "proj_abbr_name", "proj_name_en", "proj_name_th",
             "fund_status", "regis_date", "cancel_date">>

Row(fund) ==
  PyDict([c \in 1..Len(Columns) |->
            [k |-> Columns[c], v |-> Get(fund, Columns[c], PyNone)]])

\* fetch-scb-rmf-funds.py main(), step 6 and the summary (lines 210-242).
\* excel_ok: whether DataFrame.to_excel succeeds (openpyxl installed, file
\* writable); every exception of the export is caught and printed.
ScbExport ==
  /\ script = "funds"
  /\ pc = "export"
  /\ \E excel_ok \in BOOLEAN :
       LET recs == active_rmf_funds.items
           empty == KeysOf(recs) = {}
           columns_ok ==
             empty \/ {Columns[c] : c \in 1..Len(Columns)} \subseteq KeysOf(recs)
       IN IF columns_ok /\ excel_ok
          THEN /\ files' = Append(files,
                    [name |-> "scb_rmf_funds_{timestamp}.xlsx",
                     content |-> [n \in 1..Len(recs) |->
                                    IF empty THEN PyDict(<<>>) ELSE Row(recs[n])]])
               /\ console' = console \o <<Line("exported", Len(recs)),
                                          Line("summary", Len(recs))>>
          ELSE /\ files' = files
               /\ console' = console \o <<Line("export_failed", 0),
                                          Line("summary", Len(recs))>>
  /\ Ends("")
  /\ UNCHANGED <<script, FACTSHEET_KEY, DAILY_INFO_KEY, idx, all_data,
                 requests, responses, data, amc_list, scb_amc, all_scb_funds,
                 rmf_funds, active_rmf_funds, assets>>

\* fetch-scb-rmf-simple.py main(): the summary and the JSON file
\* (lines 180-202)
ScbSave ==
  /\ script = "simple"
  /\ pc = "save"
  /\ files' = Append(files,
        [name |-> "scb_rmf_funds.json",
         content |-> <<[k |-> "amc", v |-> scb_amc],
                       [k |-> "active_rmf_funds", v |-> active_rmf_funds],
                       [k |-> "all_rmf_funds", v |-> rmf_funds]>>])
  /\ console' = Append(console, Line("summary", Len(active_rmf_funds.items)))
  /\ Ends("")
  /\ UNCHANGED <<script, FACTSHEET_KEY, DAILY_INFO_KEY, idx, all_data,
                 requests, responses, data, amc_list, scb_amc, all_scb_funds,
                 rmf_funds, active_rmf_funds, assets>>

----------------------------------------------------------------------------

Scripts == {"abgdd", "funds", "simple"}

\* the process starts: the module globals are read from the environment
Init ==
  /\ script \in Scripts
  /\ \E e \in EnvFactsheet :
       FACTSHEET_KEY = CASE script = "funds" -> getenv(e, PyNone)
                         [] script = "simple" -> getenv(e, PyStr(<<>>))
                         [] script = "abgdd" -> PyNone
  /\ \E e \in EnvDaily :
       DAILY_INFO_KEY = IF script = "funds" THEN getenv(e, PyNone) ELSE PyNone
  /\ pc = "start"
  /\ idx = 0
  /\ all_data = <<>>
  /\ requests = <<>>
  /\ responses = <<>>
  /\ data = PyNone
  /\ console = <<>>
  /\ files = <<>>
  /\ exit_status = Running
  /\ uncaught = ""
  /\ amc_list = PyNone
  /\ scb_amc = PyNone
  /\ all_scb_funds = PyNone
  /\ rmf_funds = PyNone
  /\ active_rmf_funds = PyNone
  /\ assets = PyNone

Next ==
  \/ AbgddStart
  \/ AbgddIteration
  \/ AbgddSave
  \/ ScbCheckKey
  \/ ScbFetchAmc
  \/ ScbFindAmc
  \/ ScbFetchFunds
  \/ ScbFilter
  \/ ScbSearch
  \/ ScbAsset
  \/ ScbExport
  \/ ScbSave

Spec == Init /\ [][Next]_vars

----------------------------------------------------------------------------
(* Properties *)

\* the exchange of the latest call
Last == responses[Len(responses)]

\* the positions of all_data that hold the given key
EntriesFor(key) == {m \in 1..Len(all_data) : all_data[m].k = key}

\* the key under which the n-th endpoint of the enumeration is collected
LabelOf(n) == KeyOf(endpoints[n].description)

\* C1: in the ABGDD run every successful call (2xx status and a body that
\* decodes as JSON, JSON null included) adds exactly one entry keyed by its
\* label whose value is the decoded response, and at the end the number of
\* entries equals the number of successful calls.
C1_SuccessfulCallAddsOneEntry ==
  script = "abgdd" =>
    LET successful(resp) ==
          resp.net = "ok" /\ Is2xx(resp.status) /\ IsJson(resp.body)
    IN /\ \A n \in 1..Len(responses) :
            successful(responses[n]) =>
              /\ Cardinality(EntriesFor(LabelOf(n))) = 1
              /\ \A m \in EntriesFor(LabelOf(n)) :
                    all_data[m].v = json_loads(responses[n].body)
       /\ pc = "done" =>
            Len(all_data) =
              Cardinality({n \in 1..Len(responses) : successful(responses[n])})

\* C2: in one ABGDD run every endpoint of the enumeration is requested
\* exactly once and in enumeration order, whatever the earlier outcomes: the
\* requests issued so far are the first idx - 1 endpoints, and at the end of
\* the run they are the whole enumeration.
C2_EveryEndpointRequestedOnceInOrder ==
  script = "abgdd" =>
    /\ Len(requests) <= Len(endpoints)
    /\ \A n \in 1..Len(requests) : requests[n].path = endpoints[n].endpoint
    /\ \A m, n \in 1..Len(requests) :
          m # n => requests[m].path # requests[n].path
    /\ pc = "loop" => Len(requests) = idx - 1
    /\ pc = "done" => Len(requests) = Len(endpoints)

\* C2 witness: a finished run whose first call failed and whose later
\* endpoints were requested all the same
C2_Witness ==
  /\ script = "abgdd"
  /\ pc = "done"
  /\ responses[1] = NetworkFailure
  /\ responses[2] = HttpResponse(ErrorStatus, ErrorBody)
  /\ Len(requests) = Len(endpoints)

\* C3: a call answered with a status outside 200-299 yields a failure that
\* carries the status code instead of a decoded value, in each script, and
\* in the ABGDD run it contributes no entry.
C3_Non2xxIsFailureWithStatus ==
  /\ (responses # <<>> /\ Last.net = "ok" /\ ~Is2xx(Last.status)) =>
       /\ data = PyNone
       /\ \E l \in 1..Len(console) :
             /\ console[l].kind \in {"api_failed", "error_status", "http_error"}
             /\ console[l].status = Last.status
  /\ script = "abgdd" =>
       \A n \in 1..Len(responses) :
          (responses[n].net = "ok" /\ ~Is2xx(responses[n].status)) =>
             EntriesFor(LabelOf(n)) = {}

\* C4: a call answered with status 200 and a body that is not JSON is a
\* decode failure handled at the call site in every script: no exception
\* escapes call_api, the call returns the failure value and contributes no
\* entry, and the run goes on.
C4_UndecodableBodyHandledLocally ==
  (responses # <<>> /\ Last = HttpResponse(200, JInvalid)) =>
    /\ uncaught = ""
    /\ pc # "crashed"
    /\ data = PyNone
    /\ script = "abgdd" => EntriesFor(LabelOf(Len(responses))) = {}

\* C5: no API failure and no shape of a decoded response ends a run
\* abnormally: no run ends with an uncaught exception and a non-zero exit
\* status.
C5_NoAbnormalEnd ==
  /\ pc # "crashed"
  /\ exit_status # 1
  /\ uncaught = ""

\* C6: in the SCB scripts an absent (unset or empty) factsheet key ends the
\* run before any request is issued and before any file is written; a
\* present factsheet key lets the run proceed to its first request whether
\* or not the daily-info key is set, and no request, fetch_fund_nav's
\* included, is ever sent with an absent key.
C6_KeyCheckBeforeAnyCall ==
  IsScb(script) =>
    /\ KeyAbsent(FACTSHEET_KEY) => requests = <<>> /\ files = <<>>
    /\ \A n \in 1..Len(requests) : ~Falsy(requests[n].key)
    /\ ~Falsy(FACTSHEET_KEY) =>
         /\ \A l \in 1..Len(console) : console[l].kind # "key_missing"
         /\ pc \notin {"start", "fetch_amc"} => requests # <<>>
    /\ \A r \in {fetch_fund_nav(DAILY_INFO_KEY, PyStr(<<"M","1">>), PyStr(<<"d">>))} :
         /\ \A n \in 1..Len(r) : ~Falsy(r[n].key)
         /\ Falsy(DAILY_INFO_KEY) => r = <<>>

\* C6 witness: a run of fetch-scb-rmf-funds.py with the factsheet key set
\* and the daily-info key missing that issued its three requests and ended
\* normally
C6_Witness ==
  /\ script = "funds"
  /\ ~Falsy(FACTSHEET_KEY)
  /\ Falsy(DAILY_INFO_KEY)
  /\ pc = "done"
  /\ exit_status = 0
  /\ Len(requests) = 3

IsSubsequence(part, whole) ==
  \E f \in [1..Len(part) -> 1..Len(whole)] :
     /\ \A m \in 1..Len(part) : whole[f[m]] = part[m]
     /\ \A m, n \in 1..Len(part) : m < n => f[m] < f[n]

\* hay contains needle when letter case is ignored
ContainsIgnoringCase(hay, needle) ==
  \E n \in 0..(Len(hay) - Len(needle)) :
     \A m \in 1..Len(needle) : UpperChar(hay[n + m]) = UpperChar(needle[m])

\* the text of a field of a record, empty when the field is missing
TextOf(fund, field) == Get(fund, field, PyStr(<<>>)).s

\* C8 as stated: when the RMF filter has run, it has returned exactly the
\* records one of whose name fields contains "RMF", compared
\* case-insensitively, in their original order.
C8_FilterKeepsExactlyRmfNames ==
  (IsScb(script) /\ pc = "search") =>
    LET named(fund) ==
          \/ ContainsIgnoringCase(TextOf(fund, "proj_abbr_name"), RMF)
          \/ ContainsIgnoringCase(TextOf(fund, "proj_name_en"), RMF)
        all == all_scb_funds.items
    IN /\ IsSubsequence(rmf_funds.items, all)
       /\ \A n \in 1..Len(rmf_funds.items) : named(rmf_funds.items[n])
       /\ Len(rmf_funds.items) = Cardinality({n \in 1..Len(all) : named(all[n])})

\* C8 amended: when the RMF filter has run, the list it produced holds
\* exactly the fetched records whose proj_abbr_name or proj_name_en
\* contains "RMF", or whose proj_name_en contains "RETIREMENT", compared
\* case-insensitively, in their original order.
C8_FilterKeepsRmfOrRetirement ==
  (IsScb(script) /\ pc = "search") =>
    LET named(fund) ==
          \/ ContainsIgnoringCase(TextOf(fund, "proj_abbr_name"), RMF)
          \/ ContainsIgnoringCase(TextOf(fund, "proj_name_en"), RMF)
          \/ ContainsIgnoringCase(TextOf(fund, "proj_name_en"), RETIREMENT)
        all == all_scb_funds.items
    IN /\ IsSubsequence(rmf_funds.items, all)
       /\ \A n \in 1..Len(rmf_funds.items) : named(rmf_funds.items[n])
       /\ Len(rmf_funds.items) = Cardinality({n \in 1..Len(all) : named(all[n])})

\* C8 witness: the filter ran on a list of which it kept a record named in
\* lower case and dropped another record
C8_Witness ==
  /\ IsScb(script)
  /\ pc = "search"
  /\ Len(all_scb_funds.items) = 2
  /\ Len(rmf_funds.items) = 1
  /\ Contains(TextOf(rmf_funds.items[1], "proj_name_en"), <<"r","m","f">>)

\* C9: the output of an ABGDD run is determined by the enumeration and the
\* responses alone: the m-th entry of the written file belongs to the m-th
\* endpoint, in enumeration order, whose call yielded a value, is keyed by
\* that endpoint's label and holds the decoded body.  Two runs that receive
\* the same responses therefore write the same keys, in the same order,
\* with the same values.
C9_OutputDeterminedByResponses ==
  (script = "abgdd" /\ pc = "done") =>
    LET yields(resp) ==
          /\ resp.net = "ok"
          /\ ~RaisesForStatus(resp.status)
          /\ IsJson(resp.body)
          /\ resp.body.j # "null"
        ok == {n \in 1..Len(responses) : yields(responses[n])}
        out == files[1].content
    IN /\ Len(out) = Cardinality(ok)
       /\ \A m \in 1..Len(out) :
            \E n \in ok :
               /\ Cardinality({o \in ok : o <= n}) = m
               /\ out[m].k = LabelOf(n)
               /\ out[m].v = json_loads(responses[n].body)

\* C9 witness: a finished run whose first and third calls yielded a value
\* and whose second call failed
C9_Witness ==
  /\ script = "abgdd"
  /\ pc = "done"
  /\ responses[1] = HttpResponse(200, ErrorBody)
  /\ responses[2] = HttpResponse(200, JInvalid)
  /\ responses[3] = HttpResponse(200, JArray(<<>>))
  /\ Len(files[1].content) >= 2

\* C10: a call answered with a status in 200-299 and a body that is valid
\* JSON returns the decoded value and reports no failure, in each script.
C10_Any2xxReturnsDecodedValue ==
  (responses # <<>> /\ Last.net = "ok" /\ Is2xx(Last.status) /\ IsJson(Last.body)) =>
    /\ uncaught \notin {"ConnectionError", "JSONDecodeError"}
    /\ data = json_loads(Last.body)
    /\ \A l \in 1..Len(console) :
          console[l].kind \in {"api_failed", "error_status", "http_error"}
            => ~Is2xx(console[l].status)

\* C11: in both SCB scripts, at every point after the active filter has
\* run, every record of active_rmf_funds has fund_status "RG" and
\* cancel_date "-", active_rmf_funds is a subsequence of rmf_funds, and
\* rmf_funds is a subsequence of the fetched fund list.
C11_ActiveListHoldsOnlyActiveFunds ==
  (IsScb(script) /\ active_rmf_funds.t = "list") =>
    /\ \A n \in 1..Len(active_rmf_funds.items) :
          /\ HasKey(active_rmf_funds.items[n], "fund_status")
          /\ Item(active_rmf_funds.items[n], "fund_status") = PyStr(<<"R","G">>)
          /\ HasKey(active_rmf_funds.items[n], "cancel_date")
          /\ Item(active_rmf_funds.items[n], "cancel_date") = PyStr(<<"-">>)
    /\ IsSubsequence(active_rmf_funds.items, rmf_funds.items)
    /\ IsSubsequence(rmf_funds.items, all_scb_funds.items)

\* C12: in both SCB scripts the requests form a dependent chain of at most
\* three.  The funds-by-AMC request is issued only after the AMC-list call
\* returned a non-empty list that holds an AMC whose English name contains
\* "SCB", and it carries the unique_id of the first such AMC in list order.
\* The asset request is issued only after the funds call returned a
\* non-empty list and the selected fund list is non-empty, and it carries
\* the proj_id of that list's first record.  After a call that failed no
\* further request is issued.
C12_RequestsFormDependentChain ==
  IsScb(script) =>
    LET returned(n) == call_api(script, responses[n])
        succeeded(n) ==
          /\ returned(n).raised = ""
          /\ returned(n).ret.t = "list"
          /\ returned(n).ret.items # <<>>
        scb(amc) ==
          ContainsIgnoringCase(TextOf(amc, "name_en"), <<"S","C","B">>)
    IN /\ Len(requests) <= 3
       /\ Len(requests) >= 1 =>
            requests[1].path = "/FundFactsheet/fund/amc"
       /\ Len(requests) >= 2 =>
            /\ requests[2].path = "/FundFactsheet/fund/amc/{amc_id}"
            /\ succeeded(1)
            /\ amc_list = returned(1).ret
            /\ \E n \in 1..Len(amc_list.items) :
                  /\ scb(amc_list.items[n])
                  /\ \A m \in 1..(n - 1) : ~scb(amc_list.items[m])
                  /\ requests[2].arg = Item(amc_list.items[n], "unique_id")
       /\ Len(requests) >= 3 =>
            /\ requests[3].path = "/FundFactsheet/fund/{proj_id}/asset"
            /\ succeeded(2)
            /\ all_scb_funds = returned(2).ret
            /\ active_rmf_funds.t = "list"
            /\ active_rmf_funds.items # <<>>
            /\ requests[3].arg =
                 Get(active_rmf_funds.items[1], "proj_id", PyNone)
       /\ \A n \in 1..Len(responses) :
            (returned(n).raised # "" \/ Falsy(returned(n).ret)) =>
               Len(requests) = n

\* C12 witness: a finished run of three requests whose AMC list held a
\* non-SCB AMC before two SCB AMCs and whose second request carried the id
\* of the first of the two
C12_Witness ==
  /\ script = "simple"
  /\ pc = "done"
  /\ Len(requests) = 3
  /\ Len(amc_list.items) = 3
  /\ requests[2].arg = PyStr(<<"C","2">>)
  /\ requests[3].arg = PyStr(<<"M","1">>)

====
